---- MODULE Spec2Model ----
(***************************************************************************)
(* A model of merge_ics.py: the ICS line unfolder, the VEVENT scanner, the *)
(* field extractors, the SUMMARY labeler with its mojibake repair, and the *)
(* merge loop of main() (fetch, label, dedup by UID, sort by DTSTART,      *)
(* build, report).                                                         *)
(*                                                                         *)
(* A Python str is a sequence of characters; a character is a one-letter   *)
(* TLA+ string, and a character outside ASCII is written by its code point *)
(* ("U+00C3").  None is the one-element sequence <<"None">>, which is no   *)
(* str because "None" is no character.                                     *)
(***************************************************************************)
EXTENDS Integers, Sequences, FiniteSets, TLC

VARIABLES
    urls,        \* main: per URL, what fetch(u) gives: the decoded text, or FetchError
    labels,      \* main: the CAL_LABELS list (stripped, non-empty lines)
    idx,         \* main: 1-based position of the source being processed
    label,       \* main: the label of the source being processed
    evts,        \* main: the blocks of the current source not yet processed
    seen,        \* main: the set of identities already emitted
    all_events,  \* main: the accumulated (then sorted) event blocks
    hashes,      \* the values hash() has returned in this process, per string
    out_file,    \* the text written to OUT_ICS (None before the write)
    report,      \* the counts printed at the end (None before the print)
    pc,          \* main's position: "fetch", "events", "sort", "done"
    arg,         \* pure-function specifications: the input
    res          \* pure-function specifications: the result

vars == <<urls, labels, idx, label, evts, seen, all_events, hashes,
          out_file, report, pc, arg, res>>

None == <<"None">>
FetchError == <<"FetchError">>

(***************************************************************************)
(* Characters.                                                             *)
(***************************************************************************)
\* ord(c) for the characters the model uses
CodePoint(c) ==
    CASE c = "\n" -> 10 [] c = "\r" -> 13 [] c = "\t" -> 9 [] c = " " -> 32
      [] c = "+" -> 43 [] c = "-" -> 45 [] c = "/" -> 47
      [] c = "0" -> 48 [] c = "1" -> 49 [] c = "2" -> 50 [] c = "3" -> 51
      [] c = "4" -> 52 [] c = "5" -> 53 [] c = "6" -> 54 [] c = "7" -> 55
      [] c = "8" -> 56 [] c = "9" -> 57
      [] c = ":" -> 58 [] c = ";" -> 59 [] c = "=" -> 61
      [] c = "A" -> 65 [] c = "B" -> 66 [] c = "C" -> 67 [] c = "D" -> 68
      [] c = "E" -> 69 [] c = "G" -> 71 [] c = "H" -> 72 [] c = "I" -> 73
      [] c = "L" -> 76 [] c = "M" -> 77 [] c = "N" -> 78 [] c = "O" -> 79
      [] c = "P" -> 80 [] c = "Q" -> 81 [] c = "R" -> 82 [] c = "S" -> 83
      [] c = "T" -> 84 [] c = "U" -> 85 [] c = "V" -> 86 [] c = "W" -> 87
      [] c = "X" -> 88 [] c = "Y" -> 89 [] c = "Z" -> 90
      [] c = "[" -> 91 [] c = "]" -> 93
      [] c = "a" -> 97 [] c = "b" -> 98 [] c = "x" -> 120
      [] c = "U+000B" -> 11 [] c = "U+000C" -> 12 [] c = "U+001C" -> 28
      [] c = "U+001D" -> 29 [] c = "U+001E" -> 30 [] c = "U+001F" -> 31
      [] c = "U+0083" -> 131 [] c = "U+0085" -> 133 [] c = "U+00A0" -> 160
      [] c = "U+00B6" -> 182
      [] c = "U+00C2" -> 194 [] c = "U+00C3" -> 195 [] c = "U+00C5" -> 197
      [] c = "U+00F6" -> 246
      [] c = "U+1680" -> 5760
      [] c = "U+2000" -> 8192 [] c = "U+2001" -> 8193 [] c = "U+2002" -> 8194
      [] c = "U+2003" -> 8195 [] c = "U+2004" -> 8196 [] c = "U+2005" -> 8197
      [] c = "U+2006" -> 8198 [] c = "U+2007" -> 8199 [] c = "U+2008" -> 8200
      [] c = "U+2009" -> 8201 [] c = "U+200A" -> 8202
      [] c = "U+2028" -> 8232 [] c = "U+2029" -> 8233 [] c = "U+202F" -> 8239
      [] c = "U+205F" -> 8287 [] c = "U+20AC" -> 8364 [] c = "U+3000" -> 12288

Alphabet ==
    { "\n", "\r", "\t", " ", "+", "-", "/", "0", "1", "2", "3", "4", "5", "6",
      "7", "8", "9", ":", ";", "=", "A", "B", "C", "D", "E", "G", "H", "I",
      "L", "M", "N", "O", "P", "Q", "R", "S", "T", "U", "V", "W", "X", "Y",
      "Z", "[", "]", "a", "b", "x", "U+000B", "U+000C", "U+001C", "U+001D",
      "U+001E", "U+001F", "U+0083", "U+0085", "U+00A0", "U+00B6", "U+00C2",
      "U+00C3", "U+00C5", "U+00F6", "U+1680", "U+2000", "U+2001", "U+2002",
      "U+2003", "U+2004", "U+2005", "U+2006", "U+2007", "U+2008", "U+2009",
      "U+200A", "U+2028", "U+2029", "U+202F", "U+205F", "U+20AC", "U+3000" }

\* chr(n), for the code points of Alphabet
Chr(n) == CHOOSE c \in Alphabet : CodePoint(c) = n

\* str.isspace(): the characters str.strip() removes and \s matches
IsSpace(c) ==
    c \in { " ", "\t", "\n", "\r", "U+000B", "U+000C", "U+001C", "U+001D",
            "U+001E", "U+001F", "U+0085", "U+00A0", "U+1680", "U+2000",
            "U+2001", "U+2002", "U+2003", "U+2004", "U+2005", "U+2006",
            "U+2007", "U+2008", "U+2009", "U+200A", "U+2028", "U+2029",
            "U+202F", "U+205F", "U+3000" }

\* the line boundaries of str.splitlines()
IsLineBreak(c) ==
    c \in { "\n", "\r", "U+000B", "U+000C", "U+001C", "U+001D", "U+001E",
            "U+0085", "U+2028", "U+2029" }

(***************************************************************************)
(* Strings.                                                                *)
(***************************************************************************)
Min(S) == CHOOSE m \in S : \A n \in S : m <= n
Max(S) == CHOOSE m \in S : \A n \in S : m >= n

\* s[i:j] of Python for 1-based i and exclusive 1-based j
Slice(s, i, j) == SubSeq(s, i, j - 1)

\* s.startswith(p, i-1): p occurs in s at 1-based position i
MatchAt(s, i, p) ==
    /\ i >= 1
    /\ i + Len(p) - 1 <= Len(s)
    /\ SubSeq(s, i, i + Len(p) - 1) = p

StartsWith(s, p) == MatchAt(s, 1, p)

\* c in s
Contains(s, c) == \E i \in 1..Len(s) : s[i] = c

\* s < t for Python strs: lexicographic on code points
StrLess(s, t) ==
    \E k \in 1..(Len(t)) :
        /\ k <= Len(s) + 1
        /\ \A i \in 1..(k - 1) : s[i] = t[i]
        /\ \/ k = Len(s) + 1
           \/ CodePoint(s[k]) < CodePoint(t[k])

StrLeq(s, t) == s = t \/ StrLess(s, t)

\* the end (exclusive) of the longest run of characters of s from i on that
\* satisfy P: what a greedy P* consumes
RunEnd(s, i, P(_)) ==
    CHOOSE j \in i..(Len(s) + 1) :
      /\ j = Len(s) + 1 \/ ~P(s[j])
      /\ \A k \in i..(j - 1) : P(s[k])

NotNewline(c) == c # "\n"

\* s.strip()
strip(s) ==
    LET keep == { i \in 1..Len(s) : ~IsSpace(s[i]) }
    IN  IF keep = {} THEN <<>> ELSE SubSeq(s, Min(keep), Max(keep))

\* Python truth of a str or None
Truthy(s) == s # None /\ s # <<>>

RECURSIVE Join(_, _)
\* sep.join(parts)
Join(parts, sep) ==
    IF parts = <<>> THEN <<>>
    ELSE IF Len(parts) = 1 THEN parts[1]
    ELSE parts[1] \o sep \o Join(Tail(parts), sep)

RECURSIVE LineEnd(_, _)
\* the position of the first line boundary of text from j on, Len(text) + 1
\* if there is none
LineEnd(text, j) ==
    IF j > Len(text) \/ IsLineBreak(text[j]) THEN j ELSE LineEnd(text, j + 1)

RECURSIVE SplitFrom(_, _)
\* the lines of text from position i on; "\r\n" is one boundary, and a
\* boundary at the end of the text opens no further line
SplitFrom(text, i) ==
    IF i > Len(text) THEN <<>>
    ELSE LET j == LineEnd(text, i)
             crlf == j < Len(text) /\ text[j] = "\r" /\ text[j + 1] = "\n"
         IN  <<Slice(text, i, j)>>
                \o SplitFrom(text, IF crlf THEN j + 2 ELSE j + 1)

\* text.splitlines()
splitlines(text) == SplitFrom(text, 1)

RECURSIVE Digits(_)
Digits(n) ==
    IF n < 10 THEN <<Chr(48 + n)>> ELSE Append(Digits(n \div 10), Chr(48 + (n % 10)))

\* str(n) for an int
IntToStr(n) == IF n < 0 THEN <<"-">> \o Digits(0 - n) ELSE Digits(n)

(***************************************************************************)
(* The literal tokens of the source.                                       *)
(***************************************************************************)
BEGIN_VEVENT == <<"B", "E", "G", "I", "N", ":", "V", "E", "V", "E", "N", "T">>
END_VEVENT == <<"E", "N", "D", ":", "V", "E", "V", "E", "N", "T">>
UID_FIELD == <<"U", "I", "D", ":">>
DTSTART_FIELD == <<"D", "T", "S", "T", "A", "R", "T">>
SUMMARY_FIELD == <<"S", "U", "M", "M", "A", "R", "Y">>
CALNAME_FIELD == <<"X", "-", "W", "R", "-", "C", "A", "L", "N", "A", "M", "E", ":">>
PRODID_FIELD == <<"P", "R", "O", "D", "I", "D", ":">>
\* extract_dtstart's default
SENTINEL == <<"9", "9", "9", "9", "9", "9", "9", "9", "T", "0", "0", "0", "0", "0", "0", "Z">>
NOUID == <<"N", "O", "U", "I", "D", "-">>
NL == <<"\n">>

(***************************************************************************)
(* unfold_ics and parse_events.                                            *)
(***************************************************************************)
RECURSIVE UnfoldLoopKeepSpace(_, _)
\* a mutant of UnfoldLoop: the continuation line keeps its leading space
UnfoldLoopKeepSpace(lines, out) ==
    IF lines = <<>> THEN out
    ELSE LET line == Head(lines)
         IN  IF StartsWith(line, <<" ">>) /\ out # <<>>
             THEN UnfoldLoopKeepSpace(Tail(lines),
                                      [out EXCEPT ![Len(out)] = @ \o line])
             ELSE UnfoldLoopKeepSpace(Tail(lines), Append(out, line))

RECURSIVE UnfoldLoop(_, _)
\* the loop of unfold_ics over the physical lines, out being the list so far
UnfoldLoop(lines, out) ==
    IF lines = <<>> THEN out
    ELSE LET line == Head(lines)
         IN  IF StartsWith(line, <<" ">>) /\ out # <<>>
             THEN UnfoldLoop(Tail(lines),
                             [out EXCEPT ![Len(out)] = @ \o Tail(line)])
             ELSE UnfoldLoop(Tail(lines), Append(out, line))

unfold_ics(text) == UnfoldLoop(splitlines(text), <<>>)

RECURSIVE ScanLoopKeepOpen(_, _, _, _)
\* a mutant of ScanLoop: an end marker does not reset the accumulation
ScanLoopKeepOpen(lines, in_evt, cur, events) ==
    IF lines = <<>> THEN events
    ELSE LET ln == Head(lines)
         IN  IF StartsWith(ln, BEGIN_VEVENT)
             THEN ScanLoopKeepOpen(Tail(lines), TRUE, <<ln>>, events)
             ELSE IF StartsWith(ln, END_VEVENT)
             THEN ScanLoopKeepOpen(Tail(lines), in_evt, Append(cur, ln),
                           IF in_evt THEN Append(events, Join(Append(cur, ln), NL))
                                     ELSE events)
             ELSE IF in_evt
             THEN ScanLoopKeepOpen(Tail(lines), in_evt, Append(cur, ln), events)
             ELSE ScanLoopKeepOpen(Tail(lines), in_evt, cur, events)

RECURSIVE ScanLoop(_, _, _, _)
\* the loop of parse_events over the logical lines
ScanLoop(lines, in_evt, cur, events) ==
    IF lines = <<>> THEN events
    ELSE LET ln == Head(lines)
         IN  IF StartsWith(ln, BEGIN_VEVENT)
             THEN ScanLoop(Tail(lines), TRUE, <<ln>>, events)
             ELSE IF StartsWith(ln, END_VEVENT)
             THEN ScanLoop(Tail(lines), FALSE, <<>>,
                           IF in_evt THEN Append(events, Join(Append(cur, ln), NL))
                                     ELSE events)
             ELSE IF in_evt
             THEN ScanLoop(Tail(lines), in_evt, Append(cur, ln), events)
             ELSE ScanLoop(Tail(lines), in_evt, cur, events)

parse_events(ics_text) == ScanLoop(unfold_ics(ics_text), FALSE, <<>>, <<>>)

(***************************************************************************)
(* The field extractors: re.search with the source's patterns.             *)
(***************************************************************************)
\* the positions p where "\n" + field matches and the group (.+) is not empty
FieldStarts(text, field) ==
    { p \in 1..Len(text) :
        /\ text[p] = "\n"
        /\ MatchAt(text, p + 1, field)
        /\ p + Len(field) + 1 <= Len(text)
        /\ text[p + Len(field) + 1] # "\n" }

\* re.search(r"\n" + field + r"(.+)", text): group 1 stripped, or None
SearchField(text, field) ==
    LET starts == FieldStarts(text, field)
    IN  IF starts = {} THEN None
        ELSE LET b == Min(starts) + Len(field) + 1
             IN  strip(Slice(text, b, RunEnd(text, b, NotNewline)))

extract_uid(evt) == SearchField(evt, UID_FIELD)

IsStampChar(c) ==
    c \in { "0", "1", "2", "3", "4", "5", "6", "7", "8", "9",
            "T", "Z", "W", "+", "-" }

NotNewlineOrColon(c) == c # "\n" /\ c # ":"

\* where the group ([0-9TZW+-]+) of extract_dtstart's pattern begins when the
\* pattern matches at p, and 0 when it does not
StampStart(evt, p) ==
    IF ~(evt[p] = "\n" /\ MatchAt(evt, p + 1, DTSTART_FIELD)) THEN 0
    ELSE LET c == RunEnd(evt, p + 1 + Len(DTSTART_FIELD), NotNewlineOrColon)
         IN  IF c + 1 <= Len(evt) /\ evt[c] = ":" /\ IsStampChar(evt[c + 1])
             THEN c + 1 ELSE 0

\* a mutant of extract_dtstart: the default is the empty string
extract_dtstart_blank(evt) ==
    LET starts == { p \in 1..Len(evt) : StampStart(evt, p) # 0 }
    IN  IF starts = {} THEN <<>>
        ELSE LET b == StampStart(evt, Min(starts))
             IN  strip(Slice(evt, b, RunEnd(evt, b, IsStampChar)))

extract_dtstart(evt) ==
    LET starts == { p \in 1..Len(evt) : StampStart(evt, p) # 0 }
    IN  IF starts = {} THEN SENTINEL
        ELSE LET b == StampStart(evt, Min(starts))
             IN  strip(Slice(evt, b, RunEnd(evt, b, IsStampChar)))

\* a mutant of get_calendar_name: the product identifier is tried first
get_calendar_name_prodid_first(ics_text) ==
    IF FieldStarts(ics_text, PRODID_FIELD) # {}
    THEN SearchField(ics_text, PRODID_FIELD)
    ELSE SearchField(ics_text, CALNAME_FIELD)

get_calendar_name(ics_text) ==
    IF FieldStarts(ics_text, CALNAME_FIELD) # {}
    THEN SearchField(ics_text, CALNAME_FIELD)
    ELSE SearchField(ics_text, PRODID_FIELD)

(***************************************************************************)
(* _demojibake: s.encode("latin-1").decode("utf-8"), the original on error. *)
(***************************************************************************)
\* whether s.encode("latin-1") succeeds: no character is above U+00FF
Latin1Encodable(s) == \A i \in 1..Len(s) : CodePoint(s[i]) <= 255

\* s.encode("latin-1"), for an encodable s
EncodeLatin1(s) == [i \in 1..Len(s) |-> CodePoint(s[i])]

\* the number of continuation bytes a UTF-8 lead byte announces, -1 for a
\* byte that cannot lead
Utf8Need(b0) ==
    IF b0 < 128 THEN 0
    ELSE IF b0 \in 194..223 THEN 1
    ELSE IF b0 \in 224..239 THEN 2
    ELSE IF b0 \in 240..244 THEN 3
    ELSE 0 - 1

\* the range the k-th continuation byte after lead b0 must lie in
Utf8Cont(b0, k) ==
    IF k > 1 THEN 128..191
    ELSE IF b0 = 224 THEN 160..191
    ELSE IF b0 = 237 THEN 128..159
    ELSE IF b0 = 240 THEN 144..191
    ELSE IF b0 = 244 THEN 128..143
    ELSE 128..191

RECURSIVE DecodeUtf8From(_, _)
\* bytes[i-1:].decode("utf-8"), or None on a UnicodeDecodeError
DecodeUtf8From(b, i) ==
    IF i > Len(b) THEN <<>>
    ELSE LET b0 == b[i]
             n == Utf8Need(b0)
             ok == /\ n >= 0
                   /\ i + n <= Len(b)
                   /\ \A k \in 1..n : b[i + k] \in Utf8Cont(b0, k)
             cp == CASE n = 0 -> b0
                     [] n = 1 -> (b0 - 192) * 64 + (b[i + 1] - 128)
                     [] n = 2 -> (b0 - 224) * 4096 + (b[i + 1] - 128) * 64
                                     + (b[i + 2] - 128)
                     [] n = 3 -> (b0 - 240) * 262144 + (b[i + 1] - 128) * 4096
                                     + (b[i + 2] - 128) * 64 + (b[i + 3] - 128)
         IN  IF ~ok THEN None
             ELSE LET rest == DecodeUtf8From(b, i + n + 1)
                  IN  IF rest = None THEN None ELSE <<Chr(cp)>> \o rest

_demojibake(s) ==
    IF Contains(s, "U+00C3") \/ Contains(s, "U+00C2")
    THEN IF ~Latin1Encodable(s) THEN s
         ELSE LET t == DecodeUtf8From(EncodeLatin1(s), 1)
              IN  IF t = None THEN s ELSE t
    ELSE s

(***************************************************************************)
(* add_prefix_to_summary.                                                  *)
(***************************************************************************)
NotBracket(c) == c # "]"

\* re.match(r"^\[[^\]]+\]\s", val)
BracketMatch(val) ==
    /\ Len(val) >= 4
    /\ val[1] = "["
    /\ LET k == RunEnd(val, 2, NotBracket)
       IN  k >= 3 /\ k + 1 <= Len(val) /\ IsSpace(val[k + 1])

\* "[" + label + "] "
Prefix(lbl) == <<"[">> \o lbl \o <<"]", " ">>

\* a mutant of repl: only the label's own prefix stops the labeling
repl_own_prefix_only(val, lbl) ==
    LET v == _demojibake(val)
    IN  IF Truthy(lbl)
        THEN IF StartsWith(v, Prefix(lbl)) THEN v ELSE Prefix(lbl) \o v
        ELSE v

\* repl: the new text of the SUMMARY value
repl(val, lbl) ==
    LET v == _demojibake(val)
    IN  IF Truthy(lbl)
        THEN IF StartsWith(v, Prefix(lbl)) \/ BracketMatch(v)
             THEN v
             ELSE Prefix(lbl) \o v
        ELSE v

\* where the group (.*) of (?m)^(SUMMARY[^\n:]*:)(.*)$ begins when the pattern
\* matches at line start p, and 0 when it does not
SummaryValueStart(evt, p) ==
    IF ~((p = 1 \/ evt[p - 1] = "\n") /\ MatchAt(evt, p, SUMMARY_FIELD)) THEN 0
    ELSE LET c == RunEnd(evt, p + Len(SUMMARY_FIELD), NotNewlineOrColon)
         IN  IF c <= Len(evt) /\ evt[c] = ":" THEN c + 1 ELSE 0

\* re.sub(..., repl, evt, count=1)
add_prefix_to_summary(evt, lbl) ==
    LET starts == { p \in 1..Len(evt) : SummaryValueStart(evt, p) # 0 }
    IN  IF starts = {} THEN evt
        ELSE LET b == SummaryValueStart(evt, Min(starts))
                 e == RunEnd(evt, b, NotNewline)
             IN  Slice(evt, 1, b) \o repl(Slice(evt, b, e), lbl)
                    \o Slice(evt, e, Len(evt) + 1)

(***************************************************************************)
(* build_calendar.                                                         *)
(***************************************************************************)
CalendarHead(name) ==
    << <<"B", "E", "G", "I", "N", ":", "V", "C", "A", "L", "E", "N", "D", "A", "R">>,
       <<"P", "R", "O", "D", "I", "D", ":", "-", "/", "/", "i", "c", "s", "-", "m", "e", "r", "g", "e", "r", "/", "/", "g", "i", "t", "h", "u", "b", "/", "/">>,
       <<"V", "E", "R", "S", "I", "O", "N", ":", "2", ".", "0">>,
       <<"C", "A", "L", "S", "C", "A", "L", "E", ":", "G", "R", "E", "G", "O", "R", "I", "A", "N">>,
       <<"X", "-", "W", "R", "-", "C", "A", "L", "N", "A", "M", "E", ":">> \o name,
       <<"M", "E", "T", "H", "O", "D", ":", "P", "U", "B", "L", "I", "S", "H">> >>

CalendarTail == << <<"E", "N", "D", ":", "V", "C", "A", "L", "E", "N", "D", "A", "R">> >>

build_calendar(name, events_sorted) ==
    Join(CalendarHead(name) \o events_sorted \o CalendarTail, NL) \o NL

(***************************************************************************)
(* The inputs of main: the bounds, and three families of fetched feeds.    *)
(* A feed is BEGIN:VCALENDAR, header lines, events, END:VCALENDAR, every   *)
(* line ended by the family's line ending.                                 *)
(***************************************************************************)
MaxSources == 2      \* URLs in ICS_URLS
MaxEvents == 3       \* VEVENT blocks over all the feeds of a run
MaxHash == 1         \* hash() returns a value of 0..MaxHash

HashValues == 0..MaxHash

\* MERGE_NAME's default
MERGE_NAME == <<"S", "a", "m", "m", "a", "n", "s", "l", "a", "g", "e", "n", " ", "k", "a", "l", "e", "n", "d", "e", "r">>

LF == <<"\n">>
CRLF == <<"\r", "\n">>

Event(fields) == <<BEGIN_VEVENT>> \o fields \o <<END_VEVENT>>

\* dedup: the same UID with two contents, no UID, and a UID that reads like
\* a synthetic identity
DedupEvents ==
    << Event(<< <<"U", "I", "D", ":", "a">>, <<"D", "T", "S", "T", "A", "R", "T", ":", "1">>, <<"S", "U", "M", "M", "A", "R", "Y", ":", "P">> >>),
       Event(<< <<"U", "I", "D", ":", "a">>, <<"D", "T", "S", "T", "A", "R", "T", ":", "1">>, <<"S", "U", "M", "M", "A", "R", "Y", ":", "Q">> >>),
       Event(<< <<"D", "T", "S", "T", "A", "R", "T", ":", "1">>, <<"S", "U", "M", "M", "A", "R", "Y", ":", "P">> >>),
       Event(<< <<"U", "I", "D", ":", "N", "O", "U", "I", "D", "-", "0">>, <<"D", "T", "S", "T", "A", "R", "T", ":", "1">>, <<"S", "U", "M", "M", "A", "R", "Y", ":", "P">> >>) >>

\* sort: two keys out of order (one with a parameter), no DTSTART, a key
\* above the sentinel, a key equal to the sentinel
SortEvents ==
    << Event(<< <<"U", "I", "D", ":", "a">>, <<"D", "T", "S", "T", "A", "R", "T", ":", "2">> >>),
       Event(<< <<"U", "I", "D", ":", "b">>, <<"D", "T", "S", "T", "A", "R", "T", ";", "X", "=", "a", ":", "1">> >>),
       Event(<< <<"U", "I", "D", ":", "c">> >>),
       Event(<< <<"U", "I", "D", ":", "d">>, <<"D", "T", "S", "T", "A", "R", "T", ":", "Z">> >>),
       Event(<< <<"U", "I", "D", ":", "e">>, <<"D", "T", "S", "T", "A", "R", "T", ":", "9", "9", "9", "9", "9", "9", "9", "9", "T", "0", "0", "0", "0", "0", "0", "Z">> >>) >>

\* labels: a plain summary, a bracketed one, a mojibake one
LabelEvents ==
    << Event(<< <<"U", "I", "D", ":", "a">>, <<"S", "U", "M", "M", "A", "R", "Y", ":", "P">> >>),
       Event(<< <<"U", "I", "D", ":", "b">>, <<"S", "U", "M", "M", "A", "R", "Y", ":", "[", "x", "]", " ", "P">> >>),
       Event(<< <<"U", "I", "D", ":", "c">>, <<"S", "U", "M", "M", "A", "R", "Y", ":", "U+00C3", "U+00B6">> >>) >>

NoHeader == << >>
\* a display name and a product identifier, a product identifier alone, a
\* blank display name
LabelHeaders ==
    << << <<"X", "-", "W", "R", "-", "C", "A", "L", "N", "A", "M", "E", ":", "N">>, <<"P", "R", "O", "D", "I", "D", ":", "R">> >>,
       << <<"P", "R", "O", "D", "I", "D", ":", "R">> >>,
       << <<"X", "-", "W", "R", "-", "C", "A", "L", "N", "A", "M", "E", ":", " ">>, <<"P", "R", "O", "D", "I", "D", ":", "R">> >> >>

\* per family: the events and headers a feed is made of, the line ending,
\* the most events one feed holds, and the CAL_LABELS lists
Families ==
    << [events |-> DedupEvents, headers |-> <<NoHeader>>, eol |-> LF,
        perFeed |-> 2, distinct |-> FALSE, labels |-> { << >> }],
       [events |-> SortEvents, headers |-> <<NoHeader>>, eol |-> LF,
        perFeed |-> 2, distinct |-> TRUE, labels |-> { << <<"L">> >> }],
       [events |-> LabelEvents, headers |-> LabelHeaders, eol |-> CRLF,
        perFeed |-> 1, distinct |-> FALSE,
        labels |-> { << >>, << <<"L">> >>, << <<"L">>, <<"M">> >> }] >>

RECURSIVE Flatten(_)
Flatten(ss) == IF ss = <<>> THEN <<>> ELSE Head(ss) \o Flatten(Tail(ss))

\* the text of a feed of family fam with header h and the events es
Feed(fam, h, es) ==
    LET lines == << <<"B", "E", "G", "I", "N", ":", "V", "C", "A", "L", "E", "N", "D", "A", "R">> >> \o fam.headers[h]
                   \o Flatten([k \in 1..Len(es) |-> fam.events[es[k]]])
                   \o << <<"E", "N", "D", ":", "V", "C", "A", "L", "E", "N", "D", "A", "R">> >>
    IN  Join(lines, fam.eol) \o fam.eol

\* the event choices of one feed: up to k events of n
EventChoices(n, k) == UNION { [1..m -> 1..n] : m \in 0..k }

RECURSIVE SumLen(_)
SumLen(ss) == IF ss = <<>> THEN 0 ELSE Len(Head(ss)) + SumLen(Tail(ss))

\* the plans of a run: per URL a header and the events, or "fail"; in a
\* family marked distinct no event comes twice
Plans(fam, n) ==
    { pl \in [1..n -> [h : 1..Len(fam.headers),
                       es : EventChoices(Len(fam.events), fam.perFeed),
                       ok : BOOLEAN]] :
        /\ SumLen([i \in 1..n |-> pl[i].es]) <= MaxEvents
        /\ fam.distinct =>
             LET all == Flatten([i \in 1..n |-> pl[i].es])
             IN  \A i, j \in 1..Len(all) : all[i] = all[j] => i = j
        /\ \A i \in 1..n : ~pl[i].ok => pl[i].h = 1 /\ pl[i].es = <<>> }

(***************************************************************************)
(* main.                                                                   *)
(***************************************************************************)
NoHashes == [e \in {} |-> 0]

Init ==
    \E f \in 1..Len(Families) : \E n \in 1..MaxSources :
      \E pl \in Plans(Families[f], n) :
        /\ urls = [i \in 1..n |->
                     IF pl[i].ok THEN Feed(Families[f], pl[i].h, pl[i].es)
                                 ELSE FetchError]
        /\ labels \in Families[f].labels
        /\ idx = 1
        /\ label = None
        /\ evts = <<>>
        /\ seen = {}
        /\ all_events = <<>>
        /\ hashes = NoHashes
        /\ out_file = None
        /\ report = <<>>
        /\ pc = "fetch"
        /\ arg = <<>>
        /\ res = <<>>

\* a mutant of SourceLabel: the position counts the fetched sources only
SourceLabelShifted(i, txt) ==
    LET n == Cardinality({ j \in 1..i : urls[j] # FetchError })
    IN  IF n <= Len(labels) THEN labels[n]
        ELSE LET name == get_calendar_name(txt)
             IN  IF Truthy(name) THEN name ELSE None

\* line 128: the label of the source at (1-based) position i with text txt
SourceLabel(i, txt) ==
    IF i <= Len(labels) THEN labels[i]
    ELSE LET name == get_calendar_name(txt)
         IN  IF Truthy(name) THEN name ELSE None

\* lines 121-125: fetch raises, the source is skipped
FetchFail ==
    /\ pc = "fetch"
    /\ idx <= Len(urls)
    /\ urls[idx] = FetchError
    /\ idx' = idx + 1
    /\ UNCHANGED <<urls, labels, label, evts, seen, all_events, hashes,
                   out_file, report, pc, arg, res>>

\* lines 121-130: fetch returns the text; the label and the blocks
FetchOk ==
    /\ pc = "fetch"
    /\ idx <= Len(urls)
    /\ urls[idx] # FetchError
    /\ label' = SourceLabel(idx, urls[idx])
    /\ evts' = parse_events(urls[idx])
    /\ pc' = "events"
    /\ UNCHANGED <<urls, labels, idx, seen, all_events, hashes,
                   out_file, report, arg, res>>

\* line 132: the identity of block e when hash(e) is h
Identity(e, h) ==
    LET uid == extract_uid(e)
    IN  IF Truthy(uid) THEN uid ELSE NOUID \o IntToStr(h)

\* the values hash(e) can return: the one it returned before, or any
HashChoices(e) == IF e \in DOMAIN hashes THEN {hashes[e]} ELSE HashValues

\* a mutant of Duplicate: no block is taken for a duplicate
DuplicateNever(uid) == FALSE

\* a mutant of Duplicate: a block without a UID of its own is dropped too
DuplicateOrSynthetic(uid) == uid \in seen \/ StartsWith(uid, NOUID)

\* line 133: uid in seen
Duplicate(uid) == uid \in seen

\* lines 131-138: one pass of the loop over the blocks
ProcessEvent ==
    /\ pc = "events"
    /\ evts # <<>>
    /\ LET e == Head(evts)
       IN  \E h \in HashChoices(e) :
             LET uid == Identity(e, h)
             IN  /\ hashes' = IF Truthy(extract_uid(e)) THEN hashes
                              ELSE [x \in DOMAIN hashes \cup {e} |->
                                      IF x = e THEN h ELSE hashes[x]]
                 /\ IF Duplicate(uid)
                    THEN UNCHANGED <<seen, all_events>>
                    ELSE /\ seen' = seen \cup {uid}
                         /\ all_events' =
                              Append(all_events, add_prefix_to_summary(e, label))
    /\ evts' = Tail(evts)
    /\ UNCHANGED <<urls, labels, idx, label, out_file, report, pc, arg, res>>

\* the loop over the blocks ends: the next source
NextSource ==
    /\ pc = "events"
    /\ evts = <<>>
    /\ idx' = idx + 1
    /\ pc' = "fetch"
    /\ UNCHANGED <<urls, labels, label, evts, seen, all_events, hashes,
                   out_file, report, arg, res>>

RECURSIVE InsertBeforeEqual(_, _)
\* a mutant of InsertByKey: e goes before the elements of its own key
InsertBeforeEqual(sorted, e) ==
    IF sorted = <<>> THEN <<e>>
    ELSE IF StrLeq(extract_dtstart(e), extract_dtstart(Head(sorted)))
    THEN <<e>> \o sorted
    ELSE <<Head(sorted)>> \o InsertBeforeEqual(Tail(sorted), e)

RECURSIVE InsertByKey(_, _)
\* e put into the sorted list after every element whose key is not greater
InsertByKey(sorted, e) ==
    IF sorted = <<>> THEN <<e>>
    ELSE IF StrLess(extract_dtstart(e), extract_dtstart(Head(sorted)))
    THEN <<e>> \o sorted
    ELSE <<Head(sorted)>> \o InsertByKey(Tail(sorted), e)

RECURSIVE SortByKey(_)
\* line 140: list.sort(key=extract_dtstart), a stable sort
SortByKey(list) ==
    IF list = <<>> THEN <<>>
    ELSE InsertByKey(SortByKey(SubSeq(list, 1, Len(list) - 1)), list[Len(list)])

\* line 145: the number of calendars the final message names
ReportedSources == Len(urls)

\* lines 140-145: the loop over the sources ends: sort, build, write, print
Finish ==
    /\ pc = "fetch"
    /\ idx > Len(urls)
    /\ all_events' = SortByKey(all_events)
    /\ out_file' = build_calendar(MERGE_NAME, all_events')
    /\ report' = <<Len(all_events'), ReportedSources>>
    /\ pc' = "done"
    /\ UNCHANGED <<urls, labels, idx, label, evts, seen, hashes, arg, res>>

Next == FetchFail \/ FetchOk \/ ProcessEvent \/ NextSource \/ Finish

Spec == Init /\ [][Next]_vars

(***************************************************************************)
(* The pure functions, each under a specification of its own: Init draws   *)
(* the input, one action applies the function.  main's variables rest.     *)
(***************************************************************************)
MainIdle ==
    /\ urls = <<>> /\ labels = <<>> /\ idx = 0 /\ label = None /\ evts = <<>>
    /\ seen = {} /\ all_events = <<>> /\ hashes = NoHashes
    /\ out_file = None /\ report = <<>>

mainVars == <<urls, labels, idx, label, evts, seen, all_events, hashes,
              out_file, report>>

\* the strings of at most n characters of the set chars
Strings(chars, n) == UNION { [1..m -> chars] : m \in 0..n }

\* ---- unfold_ics on folded lines ----
MaxPieces == 3       \* physical lines a logical line is folded into
MaxPieceLen == 1     \* characters of one physical line, before its space

\* what a logical line is made of: a letter, a space, and U+0085, the
\* second byte of a UTF-8 A-ring read as Latin-1
PieceChars == { "a", " ", "U+0085" }

\* RFC 5545 folding: the pieces of a logical line, one per physical line,
\* each continuation line led by one space, every line ended by eol but the
\* last when terminated is false
Fold(pieces, eol, terminated) ==
    LET phys == [k \in 1..Len(pieces) |->
                   IF k = 1 THEN pieces[k] ELSE <<" ">> \o pieces[k]]
    IN  Join(phys, eol) \o (IF terminated THEN eol ELSE <<>>)

\* a text holds its last line without a line ending only if the line is
\* not empty
UnfoldInit ==
    /\ MainIdle
    /\ pc = "unfold"
    /\ res = <<>>
    /\ \E n \in 1..MaxPieces :
         \E ps \in [1..n -> Strings(PieceChars, MaxPieceLen)] :
           \E eol \in {LF, CRLF} : \E t \in BOOLEAN :
             /\ t \/ n > 1 \/ ps[n] # <<>>
             /\ arg = [pieces |-> ps, text |-> Fold(ps, eol, t)]

Unfold ==
    /\ pc = "unfold"
    /\ res' = unfold_ics(arg.text)
    /\ pc' = "unfolded"
    /\ UNCHANGED <<mainVars, arg>>

SpecUnfold == UnfoldInit /\ [][Unfold]_vars

\* ---- parse_events ----
MaxLines == 5        \* physical lines of the scanned text

ScanLines ==
    { BEGIN_VEVENT, END_VEVENT, <<"X">>, <<" ", "a">> }

ParseInit ==
    /\ MainIdle
    /\ pc = "parse"
    /\ res = <<>>
    /\ \E n \in 0..MaxLines : \E ls \in [1..n -> ScanLines] :
         arg = Join(ls, LF) \o (IF n = 0 THEN <<>> ELSE LF)

Parse ==
    /\ pc = "parse"
    /\ res' = parse_events(arg)
    /\ pc' = "parsed"
    /\ UNCHANGED <<mainVars, arg>>

SpecParse == ParseInit /\ [][Parse]_vars

\* ---- add_prefix_to_summary, once and again ----
\* what a SUMMARY value starts with: nothing, the label L in brackets,
\* another label, brackets without the space, empty brackets, a tab or an
\* ideographic space after the bracket, a mojibake label
SummaryPrefixes ==
    { <<>>, <<"[", "L", "]", " ">>, <<"[", "x", "]", " ">>, <<"[", "L", "]">>, <<"[", "]", " ">>, <<"[", "x", "]", "\t">>, <<"[", "x", "]", "U+3000">>, <<"[", "U+00C3", "U+00B6", "]", " ">> }

\* the rest of the value: plain, mojibake, mojibake twice over, and an
\* A-tilde that is no mojibake
SummaryBodies ==
    { <<"P">>, <<"U+00C3", "U+00B6">>, <<"U+00C3", "U+0083", "U+00C2", "U+00B6">>, <<"U+00C3", "b">> }

LabelerLabels == { None, <<>>, <<"L">>, <<"x">>, <<"U+00C3", "U+00B6">> }

\* the blocks: a SUMMARY line (with a parameter or without) among others,
\* two SUMMARY lines, none
LabelerBlocks ==
    { Event(<< <<"U", "I", "D", ":", "a">>, <<"S", "U", "M", "M", "A", "R", "Y", ":">> \o p \o b >>) :
        p \in SummaryPrefixes, b \in SummaryBodies }
    \cup { Event(<< <<"S", "U", "M", "M", "A", "R", "Y", ";", "X", "=", "a", ":">> \o b, <<"S", "U", "M", "M", "A", "R", "Y", ":">> \o b >>) : b \in SummaryBodies }
    \cup { Event(<< <<"U", "I", "D", ":", "a">> >>), Event(<< <<"X", "S", "U", "M", "M", "A", "R", "Y", ":", "P">> >>) }

LabelerInit ==
    /\ MainIdle
    /\ pc = "label"
    /\ res = <<>>
    /\ \E e \in { Join(b, NL) : b \in LabelerBlocks } : \E l \in LabelerLabels :
         arg = [evt |-> e, label |-> l]

LabelOnce ==
    /\ pc = "label"
    /\ res' = <<add_prefix_to_summary(arg.evt, arg.label)>>
    /\ pc' = "labeled"
    /\ UNCHANGED <<mainVars, arg>>

LabelAgain ==
    /\ pc = "labeled"
    /\ res' = Append(res, add_prefix_to_summary(res[1], arg.label))
    /\ pc' = "relabeled"
    /\ UNCHANGED <<mainVars, arg>>

LabelerNext == LabelOnce \/ LabelAgain

SpecLabeler == LabelerInit /\ [][LabelerNext]_vars

(***************************************************************************)
(* What the claims about main speak of.                                    *)
(***************************************************************************)
Range(f) == { f[i] : i \in DOMAIN f }

Count(f, x) == Cardinality({ i \in DOMAIN f : f[i] = x })

Done == pc = "done"

\* the positions of the sources whose fetch succeeds
OkSources == { i \in 1..Len(urls) : urls[i] # FetchError }

HasUid(b) == Truthy(extract_uid(b))

\* the identity of block b in this run
IdOf(b) ==
    LET uid == extract_uid(b)
    IN  IF Truthy(uid) THEN uid ELSE NOUID \o IntToStr(hashes[b])

RECURSIVE SplitOn(_, _)
\* text.split(c)
SplitOn(text, c) ==
    LET at == { i \in 1..Len(text) : text[i] = c }
    IN  IF at = {} THEN <<text>>
        ELSE <<SubSeq(text, 1, Min(at) - 1)>>
                \o SplitOn(SubSeq(text, Min(at) + 1, Len(text)), c)

\* the stripped value of the first line after the first that begins with
\* field and goes on, None without such a line
FirstValue(text, field) ==
    LET ls == SplitOn(text, "\n")
        at == { k \in 2..Len(ls) :
                  StartsWith(ls[k], field) /\ Len(ls[k]) > Len(field) }
    IN  IF at = {} THEN None
        ELSE strip(SubSeq(ls[Min(at)], Len(field) + 1, Len(ls[Min(at)])))

\* the calendar name a document declares: the display name, else the
\* product identifier
DeclaredName(text) ==
    LET name == FirstValue(text, CALNAME_FIELD)
    IN  IF name # None THEN name ELSE FirstValue(text, PRODID_FIELD)

\* the effective label of the source at position i: the explicit label at
\* that position, else the declared calendar name, else none
EffectiveLabel(i) ==
    IF i <= Len(labels) THEN labels[i]
    ELSE LET name == DeclaredName(urls[i])
         IN  IF Truthy(name) THEN name ELSE None

RECURSIVE BlocksFrom(_)
\* the blocks of the fetched sources from position i on, in processing
\* order, each with the position of its source, its identity and the text
\* main emits for it: the block labeled with the source's effective label
BlocksFrom(i) ==
    IF i > Len(urls) THEN <<>>
    ELSE (IF i \in OkSources
          THEN LET bs == parse_events(urls[i])
                   lbl == EffectiveLabel(i)
               IN  [k \in 1..Len(bs) |->
                      [src |-> i, blk |-> bs[k], id |-> IdOf(bs[k]),
                       out |-> add_prefix_to_summary(bs[k], lbl)]]
          ELSE <<>>) \o BlocksFrom(i + 1)

InputBlocks == BlocksFrom(1)

\* the positions in B of the blocks no earlier block shares its identity with
FirstSeen(B) ==
    { k \in 1..Len(B) : \A j \in 1..(k - 1) : B[j].id # B[k].id }

RECURSIVE AccumulatedFrom(_, _)
\* the first-seen blocks from position k of B on, labeled, in order
AccumulatedFrom(B, k) ==
    IF k > Len(B) THEN <<>>
    ELSE (IF \A j \in 1..(k - 1) : B[j].id # B[k].id THEN <<B[k].out>> ELSE <<>>)
            \o AccumulatedFrom(B, k + 1)

\* the list main accumulates from the blocks B
Accumulated(B) == AccumulatedFrom(B, 1)

Key(e) == extract_dtstart(e)

\* out is acc sorted by key, equal keys in acc's order
StableSortOf(acc, out) ==
    LET keyed(es) == [i \in 1..Len(es) |-> [key |-> Key(es[i]), e |-> es[i]]]
        a == keyed(acc)
        o == keyed(out)
    IN  /\ Len(out) = Len(acc)
        /\ \A i, j \in 1..Len(o) : i < j => StrLeq(o[i].key, o[j].key)
        /\ \A k \in { a[i].key : i \in 1..Len(a) } :
             LET HasKey(r) == r.key = k
             IN  SelectSeq(o, HasKey) = SelectSeq(a, HasKey)

(***************************************************************************)
(* C1.  First-seen-wins dedup: when main is done the output holds one     *)
(* event per identity of the input, no two events with the same UID, and   *)
(* the event of an identity is the (labeled) first block that carries it   *)
(* in processing order; every later block of that identity is discarded.   *)
(***************************************************************************)
C1_FirstSeenWins ==
    Done =>
      LET B == InputBlocks
          first == FirstSeen(B)
      IN  /\ Len(all_events) = Cardinality({ B[k].id : k \in 1..Len(B) })
          /\ LET uid == [i \in 1..Len(all_events) |-> extract_uid(all_events[i])]
             IN  \A i, j \in 1..Len(all_events) :
                   (i # j /\ Truthy(uid[i]) /\ Truthy(uid[j])) => uid[i] # uid[j]
          /\ \A e \in Range(all_events) \cup { B[k].out : k \in first } :
               Count(all_events, e)
                 = Cardinality({ k \in first : B[k].out = e })

\* a block is discarded: the same UID comes twice with two contents, from
\* two sources, and the output holds the first
C1_Witness ==
    /\ Done
    /\ LET B == InputBlocks
       IN  \E j, k \in 1..Len(B) :
             /\ j < k
             /\ j \in FirstSeen(B)
             /\ B[j].src < B[k].src
             /\ HasUid(B[j].blk)
             /\ B[j].id = B[k].id
             /\ B[j].blk # B[k].blk
             /\ B[j].out \in Range(all_events)

(***************************************************************************)
(* C2.  The step that ends main replaces the accumulated list by its       *)
(* stable sort by sort key under plain string comparison: the keys do not  *)
(* decrease along the output and the events of one key keep the order in   *)
(* which they were accumulated.                                            *)
(***************************************************************************)
C2_StableSort ==
    [][(pc = "fetch" /\ pc' = "done") => StableSortOf(all_events, all_events')]_vars

\* the sort has moved an event, and two different events share a key
C2_Witness ==
    /\ Done
    /\ Len(all_events) >= 3
    /\ all_events # Accumulated(InputBlocks)
    /\ \E i, j \in 1..Len(all_events) :
         i < j /\ Key(all_events[i]) = Key(all_events[j])
               /\ all_events[i] # all_events[j]

(***************************************************************************)
(* C3.  Skip and continue: whichever sources fail to fetch, main runs to   *)
(* completion: it has a next step until it is done (a failed fetch is one: *)
(* the source is skipped) and every step brings it nearer to the end; and  *)
(* the events it emits are the merge of the fetched sources alone, in      *)
(* their order, each labeled by its own position in the source list.       *)
(***************************************************************************)
\* main has a step to take: a fetch that fails or succeeds, the end of the
\* sources, a block to process or the end of the blocks
CanStep ==
    \/ pc = "fetch" /\ idx <= Len(urls) /\ urls[idx] = FetchError
    \/ pc = "fetch" /\ idx <= Len(urls) /\ urls[idx] # FetchError
    \/ pc = "fetch" /\ idx > Len(urls)
    \/ pc = "events" /\ evts # <<>>
    \/ pc = "events" /\ evts = <<>>

\* what is left to do: the sources not yet passed, then the phase, then the
\* blocks of the source in hand
Remaining ==
    << Len(urls) + 1 - idx,
       CASE pc = "fetch" -> 2 [] pc = "events" -> 1 [] OTHER -> 0,
       Len(evts) >>

\* r is below t in lexicographic order
RankLess(r, t) ==
    \/ r[1] < t[1]
    \/ r[1] = t[1] /\ r[2] < t[2]
    \/ r[1] = t[1] /\ r[2] = t[2] /\ r[3] < t[3]

C3_SkipAndContinue ==
    /\ [](~Done => CanStep)
    /\ [][RankLess(Remaining', Remaining) /\ Remaining'[1] >= 0]_vars
    /\ [](Done => StableSortOf(Accumulated(InputBlocks), all_events))

\* a source fails, and a later one is emitted under the explicit label of
\* its own position
C3_Witness ==
    /\ Done
    /\ LET B == InputBlocks
       IN  \E k \in 1..Len(B) :
             /\ \E i \in 1..(B[k].src - 1) : urls[i] = FetchError
             /\ B[k].src <= Len(labels)
             /\ B[k].out # B[k].blk
             /\ B[k].out \in Range(all_events)

(***************************************************************************)
(* C4.  Effective label precedence: the label main passes to the labeler   *)
(* for the blocks of the source at position i is the explicit label of     *)
(* position i, else the calendar name the document declares (display name, *)
(* else product identifier), else none; an emitted event whose (repaired)  *)
(* summary had no bracketed prefix carries the prefix "[label] " of that   *)
(* label, and no prefix when there is no label.                            *)
(***************************************************************************)
\* the value of the first SUMMARY line of e, None when e has none
SummaryOf(e) ==
    LET starts == { p \in 1..Len(e) : SummaryValueStart(e, p) # 0 }
    IN  IF starts = {} THEN None
        ELSE LET b == SummaryValueStart(e, Min(starts))
             IN  Slice(e, b, RunEnd(e, b, NotNewline))

\* v begins with "[lbl] " or with a bracketed prefix
Bracketed(v, lbl) == StartsWith(v, Prefix(lbl)) \/ BracketMatch(v)

C4_EffectiveLabel ==
    /\ pc = "events" => label = EffectiveLabel(idx)
    /\ Done =>
         LET B == InputBlocks
             emitted == { [uid |-> extract_uid(e), summary |-> SummaryOf(e)] :
                            e \in Range(all_events) }
         IN  \A k \in FirstSeen(B) :
               LET lbl == EffectiveLabel(B[k].src)
                   v == SummaryOf(B[k].blk)
               IN  v # None =>
                     LET w == _demojibake(v)
                     IN  [uid |-> extract_uid(B[k].blk),
                          summary |-> IF lbl = None \/ Bracketed(w, lbl)
                                      THEN w ELSE Prefix(lbl) \o w] \in emitted

\* one source is labeled by its explicit label and a later one, which
\* declares no display name, by its product identifier
C4_Witness ==
    /\ Done
    /\ LET B == InputBlocks
       IN  \E j, k \in FirstSeen(B) :
             /\ B[j].src <= Len(labels)
             /\ B[k].src > Len(labels)
             /\ FirstValue(urls[B[k].src], CALNAME_FIELD) = None
             /\ EffectiveLabel(B[k].src) # None
             /\ B[j].out # B[j].blk /\ B[j].out \in Range(all_events)
             /\ B[k].out # B[k].blk /\ B[k].out \in Range(all_events)

(***************************************************************************)
(* C6.  The source count of the final report is the number of sources      *)
(* that were fetched: a source that failed is not counted.                 *)
(***************************************************************************)
C6_ReportCountsFetched == Done => report[2] = Cardinality(OkSources)

(***************************************************************************)
(* C7.  Undated events sort last: in the output no event with a DTSTART    *)
(* line (of the characters the extractor accepts) comes after an event     *)
(* without one.                                                            *)
(***************************************************************************)
\* e has a DTSTART line the extractor's pattern accepts
HasDtstart(e) == \E p \in 1..Len(e) : StampStart(e, p) # 0

C7_UndatedLast ==
    Done => \A i, j \in 1..Len(all_events) :
              (i < j /\ ~HasDtstart(all_events[i])) => ~HasDtstart(all_events[j])

(* C7 as amended: no event whose DTSTART key is below the sentinel         *)
(* 99999999T000000Z in string order comes after an event without DTSTART.  *)
C7_UndatedAfterLowerKeys ==
    Done =>
      LET dated == [i \in 1..Len(all_events) |-> HasDtstart(all_events[i])]
          key == [i \in 1..Len(all_events) |-> Key(all_events[i])]
      IN  \A i, j \in 1..Len(all_events) :
            (i < j /\ ~dated[i]) => ~(dated[j] /\ StrLess(key[j], SENTINEL))

\* an undated event was accumulated first and is emitted after a dated one
C7_Witness ==
    /\ Done
    /\ Accumulated(InputBlocks) # <<>>
    /\ ~HasDtstart(Accumulated(InputBlocks)[1])
    /\ \E i, j \in 1..Len(all_events) :
         /\ i < j
         /\ HasDtstart(all_events[i])
         /\ StrLess(Key(all_events[i]), SENTINEL)
         /\ ~HasDtstart(all_events[j])

(***************************************************************************)
(* C8.  A block without a UID is never dropped: every block without a UID  *)
(* line of a fetched source is in the output, so the output holds as many  *)
(* events without a UID line as the fetched sources hold such blocks.      *)
(***************************************************************************)
NoUidLine(b) == extract_uid(b) = None

C8_NoUidNeverDropped ==
    Done =>
      LET B == InputBlocks
      IN  Cardinality({ i \in 1..Len(all_events) : NoUidLine(all_events[i]) })
            = Cardinality({ k \in 1..Len(B) : NoUidLine(B[k].blk) })

(* C8 as amended: every block without a UID line of a fetched source gets  *)
(* a synthetic identity, which is then seen, and the block is in the       *)
(* output unless an earlier block carried that identity (the same content, *)
(* a content of the same hash, or a UID equal to the synthetic identity);  *)
(* the output holds one event without a UID line per such first block.     *)
C8_NoUidKeptOnce ==
    Done =>
      LET B == InputBlocks
          first == FirstSeen(B)
      IN  /\ \A k \in 1..Len(B) :
               NoUidLine(B[k].blk) =>
                 /\ StartsWith(B[k].id, NOUID) /\ B[k].id \in seen
                 /\ k \in first => B[k].out \in Range(all_events)
          /\ Cardinality({ i \in 1..Len(all_events) : NoUidLine(all_events[i]) })
               = Cardinality({ k \in first : NoUidLine(B[k].blk) })

\* a block without a UID is emitted and a later copy of it is discarded
C8_Witness ==
    /\ Done
    /\ LET B == InputBlocks
       IN  \E j, k \in 1..Len(B) :
             /\ j < k
             /\ j \in FirstSeen(B)
             /\ NoUidLine(B[j].blk)
             /\ B[k].blk = B[j].blk
             /\ B[j].out \in Range(all_events)
             /\ Count(all_events, B[j].out) = 1

(***************************************************************************)
(* C5.  The claim as stated: labeling a block whose summary value already  *)
(* begins with "[L] " or with a bracketed prefix "[x] " leaves the summary *)
(* value unchanged, and labeling twice gives what labeling once gives.     *)
(***************************************************************************)
\* v begins with "[", a non-empty label without "]", "]" and a space
BracketedPrefix(v) ==
    /\ Len(v) >= 4
    /\ v[1] = "["
    /\ LET k == RunEnd(v, 2, NotBracket)
       IN  k >= 3 /\ k + 1 <= Len(v) /\ v[k + 1] = " "

HasMojibakeMark(v) == Contains(v, "U+00C3") \/ Contains(v, "U+00C2")

C5_IdempotentLabeling ==
    pc \in {"labeled", "relabeled"} /\ arg.label # None =>
      LET v == SummaryOf(arg.evt)
      IN  /\ v # None /\ (StartsWith(v, Prefix(arg.label)) \/ BracketedPrefix(v))
               => SummaryOf(res[1]) = v
          /\ pc = "relabeled" => res[2] = res[1]

\* C5, amended: when the encoding-repaired summary value begins with "[L] "
\* or with a bracketed prefix, labeling adds no prefix and the value becomes
\* the repaired value, which is the value itself when it holds neither
\* A-tilde nor A-circumflex; labeling twice gives what labeling once gives
\* whenever the once-labeled value is unchanged by the repair.
C5_NoSecondPrefix ==
    pc \in {"labeled", "relabeled"} =>
      LET v == SummaryOf(arg.evt)
          once == SummaryOf(res[1])
      IN  /\ v # None /\ Truthy(arg.label)
               /\ (StartsWith(_demojibake(v), Prefix(arg.label))
                     \/ BracketedPrefix(_demojibake(v)))
               => /\ once = _demojibake(v)
                  /\ ~HasMojibakeMark(v) => once = v
          /\ pc = "relabeled"
               /\ (IF once = None THEN TRUE ELSE _demojibake(once) = once)
               => res[2] = res[1]

\* a value under another label's prefix, labeled twice and unchanged
C5_Witness ==
    /\ pc = "relabeled"
    /\ arg.label = <<"L">>
    /\ SummaryOf(arg.evt) = <<"[", "x", "]", " ", "P">>
    /\ SummaryOf(res[1]) = <<"[", "x", "]", " ", "P">>
    /\ res[2] = res[1]

(***************************************************************************)
(* C9.  parse_events is a scanner: one block for each end-marker line met  *)
(* while accumulating, in document order, made of the lines from the most  *)
(* recent begin-marker line through that end-marker line; so a block has a *)
(* begin marker as its first line and nowhere else, an end marker as its   *)
(* last line and nowhere else; a begin marker without a later end marker,  *)
(* an end marker met while not accumulating, and lines outside a pair give *)
(* nothing.                                                                *)
(***************************************************************************)
IsBegin(ln) == StartsWith(ln, BEGIN_VEVENT)
IsEnd(ln) == StartsWith(ln, END_VEVENT)

\* the begin marker that the end marker at j closes, 0 if there is none:
\* the last begin marker before j with no end marker in between
OpenedAt(ls, j) ==
    LET begins == { i \in 1..(j - 1) :
                      /\ IsBegin(ls[i])
                      /\ \A k \in (i + 1)..(j - 1) :
                           ~IsBegin(ls[k]) /\ ~IsEnd(ls[k]) }
    IN  IF begins = {} THEN 0 ELSE Max(begins)

RECURSIVE BlocksUpTo(_, _)
\* the blocks closed by the end markers among the first j lines
BlocksUpTo(ls, j) ==
    IF j = 0 THEN <<>>
    ELSE IF IsEnd(ls[j]) /\ ~IsBegin(ls[j]) /\ OpenedAt(ls, j) # 0
         THEN Append(BlocksUpTo(ls, j - 1),
                     Join(SubSeq(ls, OpenedAt(ls, j), j), NL))
         ELSE BlocksUpTo(ls, j - 1)

C9_Scanner ==
    pc = "parsed" =>
      LET ls == unfold_ics(arg)
      IN  /\ res = BlocksUpTo(ls, Len(ls))
          /\ \A b \in 1..Len(res) :
               LET bl == SplitOn(res[b], "\n")
               IN  /\ Len(bl) >= 2
                   /\ \A k \in 1..Len(bl) :
                        /\ IsBegin(bl[k]) <=> k = 1
                        /\ IsEnd(bl[k]) <=> k = Len(bl)

\* a text with a begin marker discarded, an end marker ignored, a line
\* outside any pair, and a block emitted
C9_Witness ==
    /\ pc = "parsed"
    /\ res # <<>>
    /\ LET ls == unfold_ics(arg)
       IN  /\ Cardinality({ i \in 1..Len(ls) : IsBegin(ls[i]) }) > Len(res)
           /\ Cardinality({ i \in 1..Len(ls) : IsEnd(ls[i]) }) > Len(res)
           /\ \E i \in 1..Len(ls) :
                /\ ~IsBegin(ls[i]) /\ ~IsEnd(ls[i])
                /\ \A b \in 1..Len(res) :
                     \A k \in 1..Len(res[b]) : ~MatchAt(res[b], k, ls[i])

(***************************************************************************)
(* C10.  The claim as stated: a logical line, split anywhere into physical *)
(* lines with one space put before each continuation line, is returned by  *)
(* unfold_ics as the one original line; a first physical line that begins  *)
(* with a space is kept with its space.                                    *)
(***************************************************************************)
C10_UnfoldInvertsFold ==
    pc = "unfolded" => res = << Flatten(arg.pieces) >>

\* the same for the logical lines that hold no character at which
\* str.splitlines() breaks a line
NoLineBreak(s) == \A k \in 1..Len(s) : ~IsLineBreak(s[k])

C10_UnfoldInvertsFoldOfUnbrokenLine ==
    pc = "unfolded" /\ NoLineBreak(Flatten(arg.pieces))
      => res = << Flatten(arg.pieces) >>

\* three physical lines, the first and a continuation piece beginning with
\* a space, unfolded to the one line
C10_Witness ==
    /\ pc = "unfolded"
    /\ Len(arg.pieces) = 3
    /\ arg.pieces[1] = <<" ">>
    /\ arg.pieces[2] = <<" ">>
    /\ arg.pieces[3] = <<"a">>
    /\ res = << <<" ", " ", "a">> >>

====
